---- MODULE Spec2Model ----
(***************************************************************************)
(* A model of pym, a source-package manager: the semantic-version algebra  *)
(* of src/src/semver.py, the DependencyGraph and the InstallCommand of     *)
(* src/src/install.py.                                                     *)
(*                                                                         *)
(* Python values are modelled as tagged records: None, a raised exception  *)
(* ([tag |-> "Raise", kind |-> ...]), a Version, a Comparator and a        *)
(* VersionRange.                                                           *)
(***************************************************************************)
EXTENDS Integers, Sequences, FiniteSets, TLC

VARIABLES
    \* ---- semver: one call of a pure function on drawn operands
    lhs,            \* receiver / first operand
    rhs,            \* argument / second operand
    called,         \* which function has been applied ("none" before the call)
    result,         \* what the call returned or raised
    \* ---- DependencyGraph (install.py:465-485)
    dependencies,   \* self.dependencies: name -> list of VersionRange
    resolutions,    \* what resolve() returned or raised (None before the call)
    \* ---- one install command (install.py:38-188) and the files it works on
    pc,             \* where the command is
    args,           \* the command line: [packages, save]
    installers,     \* self.installers, in order
    index,          \* the remote index: name -> the dependencies its wheel declares
    project,        \* self.project.config['dependencies'], in memory
    manifest,       \* the dependencies of <project>/pym.json on disk
    manifest0,      \* manifest when the command started
    installables,   \* the (installer, info) pairs still to fetch
    packages,       \* the list `packages` of run()
    queue,          \* the resolutions still to fetch
    staging,        \* <staging_location>: None when absent, else dir -> content
    installed,      \* <install_location>: name -> content, None when absent
    installed0,     \* installed when the command started
    unstaged,       \* how many entries of packages the unstage loop is past
    error,          \* the exception that left run(), None when none did
    failedAt,       \* the step that raised it
    run             \* how many times the command line has been given

semverVars == <<lhs, rhs, called, result>>
graphVars == <<dependencies, resolutions>>
installVars ==
    <<pc, args, installers, index, project, manifest, manifest0, installables,
      packages, queue, staging, installed, installed0, unstaged, error,
      failedAt, run>>
vars == <<lhs, rhs, called, result, dependencies, resolutions, pc, args,
          installers, index, project, manifest, manifest0, installables,
          packages, queue, staging, installed, installed0, unstaged, error,
          failedAt>>

----------------------------------------------------------------------------
\* Bounds of the version universe
MaxMajor == 2
MaxMinor == 1
MaxPatch == 1
\* Longest list of ranges added under one name of a DependencyGraph
MaxRanges == 3
\* How many times one command line is given
MaxRuns == 2

None == [tag |-> "None"]
Raise(kind) == [tag |-> "Raise", kind |-> kind]
TypeError == Raise("TypeError")
AttributeError == Raise("AttributeError")
ValueError == Raise("ValueError")
StopIteration == Raise("StopIteration")
VersionParseException == Raise("VersionParseException")
\* A Python int
PyInt(n) == [tag |-> "int", value |-> n]
IsRaise(x) == x.tag = "Raise"

----------------------------------------------------------------------------
\* Python strings. A string is the sequence of its tokens: a token is one
\* character (".", "-", " ", "<", ">", "=", "~", "^", "*", "v", "x", "X"), a
\* decimal numeral ("0", "1", ...) or an identifier ("alpha").

Numerals == <<"0", "1", "2", "3", "4", "5", "6", "7", "8", "9", "10", "11", "12">>
IsNumeral(t) == \E i \in 1..Len(Numerals) : Numerals[i] = t
\* str(n) and int(t) of one numeral
str_int(n) == Numerals[n + 1]
int_numeral(t) == (CHOOSE i \in 1..Len(Numerals) : Numerals[i] = t) - 1

\* s[i:] and s[:i-1], 1-based
Drop(s, i) == SubSeq(s, i, Len(s))
Take(s, n) == SubSeq(s, 1, n)

\* s.lstrip(chars) and s.rstrip(chars): the leading (trailing) tokens that are
\* characters of chars removed
RECURSIVE lstrip(_, _)
lstrip(s, chars) ==
    IF s # <<>> /\ s[1] \in chars THEN lstrip(Tail(s), chars) ELSE s
RECURSIVE rstrip(_, _)
rstrip(s, chars) ==
    IF s # <<>> /\ s[Len(s)] \in chars THEN rstrip(Take(s, Len(s) - 1), chars)
    ELSE s
\* s.strip()
strip(s) == rstrip(lstrip(s, {" "}), {" "})

\* The first position at which sep occurs in s, 0 when it does not
find(s, sep) ==
    LET at == {i \in 1..(Len(s) - Len(sep) + 1) :
                  SubSeq(s, i, i + Len(sep) - 1) = sep}
    IN  IF at = {} THEN 0 ELSE CHOOSE i \in at : \A j \in at : i <= j

\* s.partition(sep): <<head, sep or "", tail>>
partition(s, sep) ==
    LET i == find(s, sep)
    IN  IF i = 0 THEN <<s, <<>>, <<>>>>
        ELSE <<Take(s, i - 1), sep, Drop(s, i + Len(sep))>>

\* s.split(c) for a one-character separator: the list of pieces
RECURSIVE split(_, _)
split(s, c) ==
    LET i == find(s, <<c>>)
    IN  IF i = 0 THEN <<s>>
        ELSE <<Take(s, i - 1)>> \o split(Drop(s, i + 1), c)

\* int(s): the integer, or the ValueError it raises. Surrounding whitespace
\* is accepted.
int(s) ==
    LET t == strip(s)
    IN  IF Len(t) = 1 /\ IsNumeral(t[1]) THEN PyInt(int_numeral(t[1]))
        ELSE ValueError

----------------------------------------------------------------------------
\* Version (semver.py:149-236)

\* `x or 0` and `x or None` of an optional integer
OrZero(x) == IF x = None THEN 0 ELSE x.value
OrNone(x) == IF x = None \/ x.value = 0 THEN None ELSE x

\* Version.__init__: the four segments, in the order the OrderedDict keeps,
\* and the partial flag. build is the tag as its sequence of tokens (<<>> is
\* the empty string).
Version__init__(major, minor, patch, build) ==
    [tag |-> "Version", major |-> OrZero(major), minor |-> OrZero(minor),
     patch |-> OrZero(patch), build |-> build,
     partial |-> (minor = None \/ patch = None)]

\* Version(M, m, p, build) called with three integers
Version(major, minor, patch, build) ==
    Version__init__(PyInt(major), PyInt(minor), PyInt(patch), build)

\* The build tags of the universe, in Python's string order
\* ("" < "alpha" < "beta"), and the rank of each in it
Builds == << <<>>, <<"alpha">>, <<"beta">> >>
BuildRank(b) == CHOOSE i \in 1..Len(Builds) : Builds[i] = b

\* One segment compared with <, as Version.__lt__ does: integers for the
\* numeric segments, strings for build
SegLt(a, b, seg) ==
    CASE seg = "major" -> a.major < b.major
      [] seg = "minor" -> a.minor < b.minor
      [] seg = "patch" -> a.patch < b.patch
      [] seg = "build" -> BuildRank(a.build) < BuildRank(b.build)

SEGMENTS == <<"major", "minor", "patch", "build">>

\* Version.__lt__: the first segment that differs decides
RECURSIVE VersionLtFrom(_, _, _)
VersionLtFrom(a, b, i) ==
    IF i > Len(SEGMENTS) THEN FALSE
    ELSE IF SegLt(a, b, SEGMENTS[i]) THEN TRUE
    ELSE IF SegLt(b, a, SEGMENTS[i]) THEN FALSE
    ELSE VersionLtFrom(a, b, i + 1)

\* A comparison that stops after patch
Version_lt_without_build(a, b) ==
    /\ VersionLtFrom(a, b, 1)
    /\ <<a.major, a.minor, a.patch>> # <<b.major, b.minor, b.patch>>

Version_lt(a, b) == VersionLtFrom(a, b, 1)

\* A printed form that leaves the build out
Version_str_without_build(v) ==
    <<str_int(v.major), ".", str_int(v.minor), ".", str_int(v.patch)>>

\* Version.__str__: "M.m.p" and, for a non-empty build, "-build"
Version_str(v) ==
    <<str_int(v.major), ".", str_int(v.minor), ".", str_int(v.patch)>>
        \o (IF v.build # <<>> THEN <<"-">> \o v.build ELSE <<>>)

\* Version.__eq__: equality of the printed forms
Version_eq(a, b) == Version_str(a) = Version_str(b)

\* functools.total_ordering: the three comparisons derived from __lt__
Version_gt(a, b) == ~Version_lt(a, b) /\ ~Version_eq(a, b)
Version_le(a, b) == Version_lt(a, b) \/ Version_eq(a, b)
Version_ge(a, b) == ~Version_lt(a, b)

----------------------------------------------------------------------------
\* Comparator (semver.py:239-323)

Comparator(operator, version) ==
    [tag |-> "Comparator", operator |-> operator, version |-> version]

\* Comparator.direction
Comparator_direction(c) ==
    CASE c.operator = "<"  -> -2
      [] c.operator = "<=" -> -1
      [] c.operator = "="  -> 0
      [] c.operator = ">"  -> 1
      [] c.operator = ">=" -> 2

\* Comparator.satisfies through Comparator.operation: the comparator's version
\* is the receiver of the comparison, so the operators are mirrored
Comparator_satisfies(c, v) ==
    CASE c.operator = "<"  -> Version_gt(c.version, v)
      [] c.operator = "<=" -> Version_ge(c.version, v)
      [] c.operator = ">"  -> Version_lt(c.version, v)
      [] c.operator = ">=" -> Version_le(c.version, v)
      [] c.operator = "="  -> Version_eq(c.version, v)

\* Comparator.__lt__
Comparator_lt(self, other) ==
    IF Comparator_direction(other) = Comparator_direction(self)
    THEN IF Comparator_direction(self) < 0
         THEN Version_lt(self.version, other.version)
         ELSE Version_lt(other.version, self.version)
    ELSE Comparator_direction(other) > Comparator_direction(self)

\* A sort that leaves the two elements as they were given
sorted_as_given(a, b) == <<a, b>>

\* sorted([a, b]) and sorted([a, b], reverse=True) of a two-element list:
\* stable, deciding with one __lt__ call
sorted(a, b) == IF Comparator_lt(b, a) THEN <<b, a>> ELSE <<a, b>>
\* sorted_reverse with reverse=True forgotten
sorted_reverse_forgotten(a, b) == IF Comparator_lt(b, a) THEN <<b, a>> ELSE <<a, b>>
sorted_reverse(a, b) == IF Comparator_lt(a, b) THEN <<b, a>> ELSE <<a, b>>

\* VersionRange.__init__
VersionRange(lower, upper) ==
    [tag |-> "VersionRange", lower |-> lower, upper |-> upper]

\* Comparator.intersection
Comparator_intersection(self, other) ==
    IF Comparator_direction(self) = 0 /\ Comparator_satisfies(other, self.version)
    THEN VersionRange(self, None)
    ELSE IF Comparator_direction(other) = 0
            /\ Comparator_satisfies(self, other.version)
    THEN VersionRange(other, None)
    ELSE IF \/ Comparator_direction(self) < 0 /\ Comparator_direction(other) < 0
            \/ Comparator_direction(self) >= 0 /\ Comparator_direction(other) >= 0
    THEN LET s == sorted(self, other)
             smaller == s[1]
             larger == s[2]
         IN  IF Comparator_satisfies(larger, smaller.version)
             THEN VersionRange(smaller, None)
             ELSE None
    ELSE IF Comparator_satisfies(self, other.version)
            /\ Comparator_satisfies(other, self.version)
    THEN LET s == sorted_reverse(self, other)
         IN  VersionRange(s[1], s[2])
    ELSE None

----------------------------------------------------------------------------
\* VersionRange (semver.py:326-425)

\* VersionRange.__contains__ for a Version item
VersionRange_contains(r, v) ==
    /\ Comparator_satisfies(r.lower, v)
    /\ (r.upper = None \/ Comparator_satisfies(r.upper, v))

\* The function the class attribute VersionRange.intersection is bound to: the
\* classmethod of lines 388-397, defined after the instance method of lines
\* 372-382 and replacing it. positional are the arguments that follow
\* the implicit cls; with other than two of them the call raises TypeError
\* before the body runs. In the last branch `r2.lower in r2` hands a
\* Comparator to Version's comparison, which subscripts it (TypeError) unless
\* the operator is "=", whose string comparison is False.
VersionRange_intersection(positional) ==
    IF Len(positional) # 2 THEN TypeError
    ELSE LET r1 == positional[1]
             r2 == positional[2]
         IN  IF r1.upper = None /\ r2.upper = None
             THEN VersionRange(Comparator_intersection(r1.lower, r2.lower), None)
             ELSE IF r1.upper = None
             THEN Comparator_intersection(r1.lower, r2.upper)
             ELSE IF r2.upper = None
             THEN IF r2.lower.operator = "=" THEN None ELSE TypeError
             ELSE None

\* A Python bool
PyBool(b) == [tag |-> "bool", value |-> b]

\* Comparator.intersects
Comparator_intersects(self, other) == Comparator_intersection(self, other) # None

\* VersionRange.intersects. In the third branch `other.lower.intersects()`
\* is a call without its argument: it raises TypeError when the `and` comes
\* to evaluate it
VersionRange_intersects(self, other) ==
    IF self.upper = None /\ other.upper = None
    THEN PyBool(Comparator_intersects(self.lower, other.lower))
    ELSE IF self.upper = None
    THEN PyBool(Comparator_intersects(self.lower, other.upper))
    ELSE IF other.upper = None
    THEN IF Comparator_intersects(other.lower, self.upper) THEN TypeError
         ELSE PyBool(FALSE)
    ELSE PyBool(/\ Comparator_intersects(self.upper, other.lower)
                /\ Comparator_intersects(self.lower, other.upper))

\* The call a.intersection(r) on an instance a: the receiver supplies cls and
\* r is the only positional argument
Call_intersection(a, r) ==
    IF a.tag # "VersionRange" THEN AttributeError
    ELSE VersionRange_intersection(<<r>>)

----------------------------------------------------------------------------
\* Parsing (semver.py:211-236, 314-323, 399-486)

\* Version.clean
Version_clean(version_str) == lstrip(strip(version_str), {"=", "v"})

\* Version.parse: int() of the first piece, then of the second and third
\* when present (int(0) otherwise), a zero minor or patch handed on as None;
\* a ValueError becomes VersionParseException
Version_parse(version_str) ==
    LET cleaned == Version_clean(version_str)
        parted == partition(cleaned, <<"-">>)
        parts == split(parted[1], ".")
        vmajor == int(parts[1])
        vminor == IF Len(parts) >= 2 THEN int(parts[2]) ELSE PyInt(0)
        vpatch == IF Len(parts) >= 3 THEN int(parts[3]) ELSE PyInt(0)
    IN  IF IsRaise(vmajor) \/ IsRaise(vminor) \/ IsRaise(vpatch)
        THEN VersionParseException
        ELSE Version__init__(vmajor, OrNone(vminor), OrNone(vpatch), parted[3])

\* Version.__copy__
Version_copy(v) == Version(v.major, v.minor, v.patch, v.build)

\* Version.inc for a primary segment: the later primary segments are zeroed
Version_inc(v, release) ==
    CASE release = "major" ->
            [v EXCEPT !.major = v.major + 1, !.minor = 0, !.patch = 0]
      [] release = "minor" -> [v EXCEPT !.minor = v.minor + 1, !.patch = 0]
      [] release = "patch" -> [v EXCEPT !.patch = v.patch + 1]
      [] OTHER -> v

\* re.search(r'(<=|<|>=|>)', v): the operator matched first, <<>> for no match
search_operator(v) ==
    LET at == {i \in 1..Len(v) : v[i] \in {"<", ">"}}
        i == CHOOSE k \in at : \A j \in at : k <= j
    IN  IF at = {} THEN <<>>
        ELSE IF i < Len(v) /\ v[i + 1] = "=" THEN <<v[i], "=">> ELSE <<v[i]>>

\* The operator's name as a Comparator keeps it
operator_name(op) ==
    CASE op = <<"<">> -> "<"
      [] op = <<"<", "=">> -> "<="
      [] op = <<">">> -> ">"
      [] op = <<">", "=">> -> ">="

\* Comparator.parse
Comparator_parse(v) ==
    LET m == search_operator(v)
        op == IF m # <<>> THEN operator_name(m) ELSE "="
        version == IF m # <<>> THEN lstrip(v, {m[i] : i \in 1..Len(m)}) ELSE v
        parsed == Version_parse(version)
    IN  IF IsRaise(parsed) THEN parsed ELSE Comparator(op, parsed)

\* HyphenRange.parse
HyphenRange_parse(v) ==
    LET parted == partition(v, <<" ", "-", " ">>)
        vlower == Version_parse(parted[1])
        vupper == Version_parse(parted[3])
    IN  IF IsRaise(vlower) THEN vlower
        ELSE IF IsRaise(vupper) THEN vupper
        ELSE VersionRange(Comparator(">=", vlower),
                          Comparator(IF vupper.partial THEN "<" ELSE "<=", vupper))

\* Version.__setitem__ on a primary segment
Version_set(v, seg, n) ==
    CASE seg = "major" -> [v EXCEPT !.major = n]
      [] seg = "minor" -> [v EXCEPT !.minor = n]
      [] seg = "patch" -> [v EXCEPT !.patch = n]
Version_get(v, seg) ==
    CASE seg = "major" -> v.major
      [] seg = "minor" -> v.minor
      [] seg = "patch" -> v.patch

\* Version() with no argument
Version0 == Version__init__(None, None, None, <<>>)

\* XRange.parse from piece i on, with the segments filled so far (the last
\* of them is `previous`)
RECURSIVE XRange_loop(_, _, _, _, _)
XRange_loop(pieces, i, filled, vlower, vupper) ==
    IF i > Len(pieces) THEN VersionParseException
    ELSE IF pieces[i] \in {<<"*">>, <<"x">>, <<"X">>}
    THEN LET previous == SEGMENTS[filled]
             upper == IF filled > 0
                      THEN Comparator("<", Version_set(vupper, previous,
                                              Version_get(vupper, previous) + 1))
                      ELSE None
         IN  VersionRange(Comparator(">=", vlower), upper)
    ELSE IF filled >= 3 THEN StopIteration
    ELSE LET n == int(pieces[i])
             seg == SEGMENTS[filled + 1]
         IN  IF IsRaise(n) THEN n
             ELSE XRange_loop(pieces, i + 1, filled + 1,
                              Version_set(vlower, seg, n.value),
                              Version_set(vupper, seg, n.value))

XRange_parse(v) == XRange_loop(split(v, "."), 1, 0, Version0, Version0)

\* TildeRange.parse
TildeRange_parse(v) ==
    LET vlower == Version_parse(lstrip(v, {"~"}))
        vupper == Version_copy(vlower)
    IN  IF IsRaise(vlower) THEN vlower
        ELSE VersionRange(
                Comparator(">=", vlower),
                Comparator("<", IF vupper.minor # 0 \/ vupper.patch # 0
                                THEN Version_inc(vupper, "minor")
                                ELSE Version_inc(vupper, "major")))

\* A caret range whose upper bound is always the next major
CaretRange_parse_next_major(v) ==
    LET vlower == Version_parse(lstrip(v, {"^"}))
    IN  IF IsRaise(vlower) THEN vlower
        ELSE VersionRange(Comparator(">=", vlower),
                          Comparator("<", Version_set(Version0, "major", vlower.major + 1)))

\* CaretRange.parse: the loop runs over all four segments, so when the three
\* numbers are 0 it reaches build, a string that is != 0, and adds 1 to it
CaretRange_parse(v) ==
    LET vlower == Version_parse(lstrip(v, {"^"}))
    IN  IF IsRaise(vlower) THEN vlower
        ELSE IF vlower.major # 0
        THEN VersionRange(Comparator(">=", vlower),
                          Comparator("<", Version_set(Version0, "major", vlower.major + 1)))
        ELSE IF vlower.minor # 0
        THEN VersionRange(Comparator(">=", vlower),
                          Comparator("<", Version_set(Version0, "minor", vlower.minor + 1)))
        ELSE IF vlower.patch # 0
        THEN VersionRange(Comparator(">=", vlower),
                          Comparator("<", Version_set(Version0, "patch", vlower.patch + 1)))
        ELSE TypeError

\* VersionRange.parse
VersionRange_parse(v) ==
    IF partition(v, <<" ", "-", " ">>)[3] # <<>> THEN HyphenRange_parse(v)
    ELSE LET parted == partition(v, <<" ">>)
             lower == parted[1]
             upper == parted[3]
         IN  IF upper # <<>>
             THEN LET cl == Comparator_parse(lower)
                      cu == Comparator_parse(upper)
                  IN  IF IsRaise(cl) THEN cl
                      ELSE IF IsRaise(cu) THEN cu
                      ELSE VersionRange(cl, cu)
             ELSE IF \E i \in 1..Len(split(v, ".")) :
                        split(v, ".")[i] \in {<<"*">>, <<"x">>, <<"X">>}
             THEN XRange_parse(v)
             ELSE IF v # <<>> /\ v[1] = "~" THEN TildeRange_parse(v)
             ELSE IF v # <<>> /\ v[1] = "^" THEN CaretRange_parse(v)
             ELSE LET cl == Comparator_parse(lower)
                  IN  IF IsRaise(cl) THEN cl
                      ELSE VersionRange(cl, IF cl.operator = "=" THEN cl ELSE None)

----------------------------------------------------------------------------
\* DependencyGraph (install.py:465-485)

\* functools.reduce(lambda a, r: a.intersection(r), ranges) from position i
\* with accumulator acc; an exception raised by a call leaves the fold
RECURSIVE reduce(_, _, _)
reduce(acc, ranges, i) ==
    IF i > Len(ranges) THEN acc
    ELSE LET next == Call_intersection(acc, ranges[i])
         IN  IF IsRaise(next) THEN next ELSE reduce(next, ranges, i + 1)

\* The names a graph has ranges for (the keys of the defaultdict)
GraphNames(deps) == {n \in DOMAIN deps : Len(deps[n]) > 0}

\* DependencyGraph.resolve: the exception of the first fold that raises, else
\* name -> accepted range
DependencyGraph_resolve(deps) ==
    LET folded == [n \in GraphNames(deps) |-> reduce(deps[n][1], deps[n], 2)]
    IN  IF \E n \in GraphNames(deps) : IsRaise(folded[n])
        THEN (CHOOSE e \in {folded[n] : n \in GraphNames(deps)} : IsRaise(e))
        ELSE [tag |-> "Resolutions", of |-> folded]

----------------------------------------------------------------------------
\* Printing (semver.py:248-249, 336-340)

operator_tokens(op) ==
    CASE op = "<"  -> <<"<">>
      [] op = "<=" -> <<"<", "=">>
      [] op = "="  -> <<"=">>
      [] op = ">"  -> <<">">>
      [] op = ">=" -> <<">", "=">>

\* Comparator.__str__
Comparator_str(c) == operator_tokens(c.operator) \o Version_str(c.version)

\* VersionRange.__str__
VersionRange_str(r) ==
    Comparator_str(r.lower)
        \o (IF r.upper # None THEN <<" ">> \o Comparator_str(r.upper) ELSE <<>>)

----------------------------------------------------------------------------
\* Package references (package.py:54-80) and the installers' discriminators
\* (install.py:220-236, 271-285). A reference is a string of tokens; besides
\* the characters, "git+", "pypi+" and ".git" are tokens.

Extensions == {".git"}

\* os.path.splitext(os.path.basename(source))[0] of a source whose stem is one
\* token ("" for an empty stem)
stem(source) ==
    LET slashes == {i \in 1..Len(source) : source[i] = "/"}
        last == CHOOSE i \in slashes : \A j \in slashes : j <= i
        base == IF slashes = {} THEN source ELSE Drop(source, last + 1)
        root == IF base # <<>> /\ base[Len(base)] \in Extensions
                THEN Take(base, Len(base) - 1) ELSE base
    IN  IF root = <<>> THEN "" ELSE root[1]

\* PackageInfo.parse; version_range is None while the key is absent
PackageInfo_parse(reference, delim) ==
    LET parted == partition(reference, <<delim>>)
    IN  [tag |-> "PackageInfo", reference |-> reference, name |-> stem(parted[1]),
         version |-> parted[3], source |-> parted[1], version_range |-> None]

\* re.sub("^" + prefix, "", reference) for a one-token prefix
strip_prefix(reference, prefix) ==
    IF reference # <<>> /\ reference[1] = prefix THEN Tail(reference) ELSE reference

\* GitInstaller.can_install_reference
GitInstaller_can_install_reference(reference) ==
    LET source == partition(reference, <<"#">>)[1]
        info == PackageInfo_parse(strip_prefix(reference, "git+"), "#")
    IN  IF source # <<>> /\ (source[Len(source)] = ".git" \/ source[1] = "git+")
        THEN [info EXCEPT !.version_range = <<"git+">> \o info.reference]
        ELSE None

\* GitInstaller.can_install
GitInstaller_can_install(name, version) ==
    LET info == GitInstaller_can_install_reference(version)
    IN  IF info # None THEN [info EXCEPT !.name = name] ELSE None

\* PypiInstaller.can_install_reference
PypiInstaller_can_install_reference(reference) ==
    PackageInfo_parse(strip_prefix(reference, "pypi+"), "@")

\* PypiInstaller.can_install
PypiInstaller_can_install(name, version) ==
    [PypiInstaller_can_install_reference(<<name>>) EXCEPT !.version = version]

can_install_reference(i, reference) ==
    IF i = "git" THEN GitInstaller_can_install_reference(reference)
    ELSE PypiInstaller_can_install_reference(reference)

can_install(i, name, version) ==
    IF i = "git" THEN GitInstaller_can_install(name, version)
    ELSE PypiInstaller_can_install(name, version)

\* An (installer, info) pair
Pair(i, info) == [tag |-> "pair", installer |-> i, info |-> info]

\* InstallCommand.find_ref_installer: the first installer of the list that
\* accepts; the loop ending without one returns None (nothing in the try block
\* raises StopIteration)
RECURSIVE find_ref_installer_from(_, _, _)
find_ref_installer_from(list, k, reference) ==
    IF k > Len(list) THEN None
    ELSE IF can_install_reference(list[k], reference) # None
    THEN Pair(list[k], can_install_reference(list[k], reference))
    ELSE find_ref_installer_from(list, k + 1, reference)

find_ref_installer(list, reference) == find_ref_installer_from(list, 1, reference)

\* InstallCommand.find_installer
RECURSIVE find_installer_from(_, _, _, _)
find_installer_from(list, k, name, version) ==
    IF k > Len(list) THEN None
    ELSE IF can_install(list[k], name, version) # None
    THEN Pair(list[k], can_install(list[k], name, version))
    ELSE find_installer_from(list, k + 1, name, version)

find_installer(list, name, version) == find_installer_from(list, 1, name, version)

----------------------------------------------------------------------------
\* The files of an install command and the installers' install()
\* (install.py:128-158, 238-253, 287-317; package.py:83-106)

PkgNames == {"a", "b", "c", "x"}

\* A pym.json without an `src` key: the keys the command reads
Manifest(name, deps) == [name |-> name, dependencies |-> deps]

\* A pym.json with an `src` key
ManifestSrc(name, deps, src) == [name |-> name, dependencies |-> deps, src |-> src]

\* 'src' in config
has_src(config) == "src" \in DOMAIN config

\* What a package directory holds: where it came from ("old" for a copy that
\* was installed before the command, else the installer that fetched it), its
\* pym.json (None when it has none) and whether the fetch completed
Content(origin, pym_json, complete) ==
    [origin |-> origin, manifest |-> pym_json, complete |-> complete]

Old(name) == Content("old", Manifest(name, <<>>), TRUE)

\* An empty directory of package directories
NoDirs == [d \in PkgNames |-> None]

\* The remote sources. The index serves version 1.0.0 of every name; the wheel
\* of a name declares the dependencies index[name]. The repository x.git ships
\* a pym.json that names the package "a".
RemoteVersion == <<"1", ".", "0", ".", "0">>
RepoContent(source) ==
    IF source = <<"x", ".git">> THEN Content("git", Manifest("a", <<>>), TRUE)
    ELSE Content("git", None, TRUE)

\* The info an installer returns
InfoAfter(info, path, version, version_range, deps) ==
    [tag |-> "PackageInfo", reference |-> info.reference, name |-> info.name,
     source |-> info.source, version |-> version, version_range |-> version_range,
     path |-> path, dependencies |-> deps]

Outcome(err, stag, info) == [error |-> err, staging |-> stag, info |-> info]

\* GitInstaller.install: the outcomes of cloning info.source into
\* dest/info.name. A clone into a directory that exists fails; a checkout that
\* fails leaves the clone behind.
GitInstaller_install(info, stag) ==
    IF stag[info.name] # None
    THEN {Outcome(Raise("GitCommandError"), stag, None)}
    ELSE { Outcome(Raise("VersionNotFoundException"),
                   [stag EXCEPT ![info.name] = Content("git", None, FALSE)], None),
           Outcome(None, [stag EXCEPT ![info.name] = RepoContent(info.source)],
                   InfoAfter(info, info.name, info.version, info.version_range,
                             <<>>)) }

\* PypiInstaller.install: the outcomes of downloading the wheel of info.name and
\* extracting it, over what the directory holds, into dest/<package name>
PypiInstaller_install(info, stag, idx) ==
    IF info.name \notin DOMAIN idx
    THEN {Outcome(Raise("PackageUrlException"), stag, None)}
    ELSE { Outcome(Raise("PackageUrlException"), stag, None),
           Outcome(None,
                   [stag EXCEPT ![info.name] =
                       Content("pypi",
                               IF @ = None THEN None ELSE @.manifest, TRUE)],
                   InfoAfter(info, info.name, RemoteVersion,
                             <<"^">> \o RemoteVersion, idx[info.name])) }

installer_install(i, info, stag, idx) ==
    IF i = "git" THEN GitInstaller_install(info, stag)
    ELSE PypiInstaller_install(info, stag, idx)

\* An assignment that appends the item even when the key is there
dict_set_appending(dict, key, value) == Append(dict, <<key, value>>)

\* A dict is the sequence of its (key, value) items in insertion order.
\* dict[key] = value: the value replaced in place, a new key appended
dict_set(dict, key, value) ==
    IF \E i \in 1..Len(dict) : dict[i][1] = key
    THEN [i \in 1..Len(dict) |->
             IF dict[i][1] = key THEN <<key, value>> ELSE dict[i]]
    ELSE Append(dict, <<key, value>>)

\* A PymPackage of the list `packages`; version_range and requested record the
\* info the installer returned and whether the package was asked for on the
\* command line or in the manifest (not fetched as a resolved dependency)
PymPackage(location, config, version_range, requested) ==
    [tag |-> "PymPackage", location |-> location, config |-> config,
     version_range |-> version_range, requested |-> requested]

\* PymConfigBuilder.build for the keys the command reads; info.dependencies is
\* {} where values.get('dependencies') finds none; `values.get('src') or 'src'`
\* is a non-empty directory name whatever guess_src found, written "src"
PymConfigBuilder_build(info) == ManifestSrc(info.name, info.dependencies, "src")

\* InstallCommand.install: the outcomes [error, staging, package, project] of
\* installer.install followed by the load or synthesis of the package's
\* pym.json and, with save, the update of the project's dependencies
InstallCommand_install(pair, stag, idx, save, proj, requested) ==
    { IF o.error # None
      THEN [error |-> o.error, staging |-> o.staging, package |-> None,
            project |-> proj]
      ELSE LET path == o.info.path
               loaded == o.staging[path].manifest
               config == IF loaded # None THEN loaded
                         ELSE PymConfigBuilder_build(o.info)
           IN  [error |-> None,
                staging |-> [o.staging EXCEPT ![path].manifest = config],
                package |-> PymPackage(path, config, o.info.version_range, requested),
                project |-> IF save
                            THEN dict_set(proj, config.name, o.info.version_range)
                            ELSE proj]
      : o \in installer_install(pair.installer, pair.info, stag, idx) }

\* os.makedirs(dest), EEXIST tolerated
makedirs(stag) == IF stag = None THEN NoDirs ELSE stag

\* shutil.rmtree(dest) of InstallCommand.unstage, FileNotFoundError passed over
unstage_rmtree(inst, pkg) == [inst EXCEPT ![pkg.config.name] = None]

\* A move that takes the staged directory away and delivers it nowhere
unstage_move_nowhere(stag, inst, pkg) ==
    [error |-> None, staging |-> [stag EXCEPT ![pkg.location] = None],
     installed |-> inst]

\* shutil.move(src, dest) of InstallCommand.unstage: [error, staging, installed]
unstage_move(stag, inst, pkg) ==
    IF stag[pkg.location] = None
    THEN [error |-> Raise("FileNotFoundError"), staging |-> stag, installed |-> inst]
    ELSE [error |-> None,
          staging |-> [stag EXCEPT ![pkg.location] = None],
          installed |-> [inst EXCEPT ![pkg.config.name] = stag[pkg.location]]]

\* A cleanup that removes nothing
cleanup_nothing(stag) == stag

\* InstallCommand.cleanup: the staging directory removed with all it holds
cleanup(stag) == None

----------------------------------------------------------------------------
\* The universe the operands are drawn from

Operators == {"<", "<=", "=", ">", ">="}
LowerLike == {">", ">="}
UpperLike == {"<", "<="}

\* Build tags of the operands
OperandBuilds == {<<>>, <<"alpha">>}

Versions ==
    {Version(M, m, p, b) : M \in 0..MaxMajor, m \in 0..MaxMinor,
                           p \in 0..MaxPatch, b \in OperandBuilds}

Comparators == {Comparator(op, v) : op \in Operators, v \in Versions}

\* The versions a range is asked about: the operands' and their neighbours
ProbeVersions ==
    {Version(M, m, p, b) : M \in 0..(MaxMajor + 1), m \in 0..(MaxMinor + 1),
                           p \in 0..(MaxPatch + 1), b \in OperandBuilds}

\* The versions the bounds of a drawn range carry
RangeVersions == {Version(M, 0, 0, <<>>) : M \in 0..MaxMajor}

\* The ranges VersionRange.parse yields: a lower-like bound with no upper or
\* an upper-like one, and an "=" comparator as both bounds
Ranges ==
    {VersionRange(Comparator(lo, v), None) : lo \in LowerLike, v \in RangeVersions}
    \cup {VersionRange(Comparator(lo, v), Comparator(up, w)) :
              lo \in LowerLike, v \in RangeVersions,
              up \in UpperLike, w \in RangeVersions}
    \cup {VersionRange(Comparator("=", v), Comparator("=", v)) : v \in RangeVersions}

\* Names and range literals handed to DependencyGraph.add
GraphNameSet == {"foo", "bar"}
GraphLiterals ==
    { <<">", "=", "1", ".", "0", ".", "0">>,
      <<"<", "2", ".", "0", ".", "0">>,
      <<"^", "1", ".", "2", ".", "0">>,
      <<"2", ".", "x">> }

----------------------------------------------------------------------------
\* One call of a semver function on drawn operands

SemverIdle == lhs = None /\ rhs = None /\ called = "none" /\ result = None
GraphIdle == dependencies = <<>> /\ resolutions = None
InstallIdle ==
    /\ pc = "idle" /\ args = None /\ installers = <<>> /\ index = <<>>
    /\ project = <<>> /\ manifest = <<>> /\ manifest0 = <<>>
    /\ installables = <<>> /\ packages = <<>> /\ queue = <<>>
    /\ staging = None /\ installed = <<>> /\ installed0 = <<>>
    /\ unstaged = 0 /\ error = None /\ failedAt = "none" /\ run = 0

\* a.intersection(b) of two comparators
CallComparatorIntersection ==
    /\ called = "none"
    /\ lhs.tag = "Comparator" /\ rhs.tag = "Comparator"
    /\ called' = "Comparator.intersection"
    /\ result' = Comparator_intersection(lhs, rhs)
    /\ UNCHANGED <<lhs, rhs>>
    /\ UNCHANGED <<graphVars, installVars>>

\* r1.intersection(r2) of two ranges
CallRangeIntersection ==
    /\ called = "none"
    /\ lhs.tag = "VersionRange" /\ rhs.tag = "VersionRange"
    /\ called' = "VersionRange.intersection"
    /\ result' = Call_intersection(lhs, rhs)
    /\ UNCHANGED <<lhs, rhs>>
    /\ UNCHANGED <<graphVars, installVars>>

\* The comparisons of three versions with one another: lhs is the list of the
\* three, result[i][j] what lhs[i] < lhs[j], == and > return. The versions
\* are the operands' and one with a second build tag.
VersionInit ==
    /\ lhs \in [1..3 -> Versions \cup {Version(0, 0, 0, <<"beta">>)}]
    /\ rhs = None
    /\ called = "none" /\ result = None
    /\ GraphIdle /\ InstallIdle

CallVersionCompare ==
    /\ called = "none"
    /\ called' = "Version.compare"
    /\ result' = [i \in 1..3 |-> [j \in 1..3 |->
                      [lt |-> Version_lt(lhs[i], lhs[j]),
                       eq |-> Version_eq(lhs[i], lhs[j]),
                       gt |-> Version_gt(lhs[i], lhs[j])]]]
    /\ UNCHANGED <<lhs, rhs>>
    /\ UNCHANGED <<graphVars, installVars>>

VersionSpec == VersionInit /\ [][CallVersionCompare]_vars

\* The literals handed to the parsers. A version literal is one to three
\* numerals joined by ".", with or without a build tag; it is written bare,
\* after "v", "=" or a blank, or before a blank. A range literal is a version
\* literal bare or after an operator, "~" or "^", two of them joined by " - "
\* or by a blank, or an X-range. The rest are literals that no shape accepts.
NumberLiterals ==
    {<<str_int(M)>> : M \in 0..MaxMajor}
    \cup {<<str_int(M), ".", str_int(m)>> : M \in 0..MaxMajor, m \in 0..MaxMinor}
    \cup {<<str_int(M), ".", str_int(m), ".", str_int(p)>> :
             M \in 0..MaxMajor, m \in 0..MaxMinor, p \in 0..MaxPatch}

VersionLiterals ==
    {n \o b : n \in NumberLiterals,
              b \in {<<>>, <<"-", "alpha">>, <<"-", "alpha", "-", "beta">>,
                     <<"-", "alpha", ".", "1">>}}

Literals ==
    {pre \o v \o post : pre \in {<<>>, <<"v">>, <<"=">>, <<" ">>},
                         v \in VersionLiterals, post \in {<<>>, <<" ">>}}
    \cup {op \o n : op \in {<<"<">>, <<"<", "=">>, <<">">>, <<">", "=">>,
                            <<"~">>, <<"^">>},
                     n \in NumberLiterals
                           \cup {<<"0", ".", "0", ".", "0", "-", "alpha">>,
                                 <<"0", ".", "1", ".", "1", "-", "alpha">>}}
    \cup {a \o <<" ", "-", " ">> \o b : a \in NumberLiterals, b \in NumberLiterals}
    \cup {<<">", "=">> \o a \o <<" ", "<">> \o b :
             a \in NumberLiterals, b \in NumberLiterals}
    \cup {<<"*">>, <<"x">>, <<"1", ".", "x">>, <<"1", ".", "2", ".", "X">>,
          <<"1", ".", "2", ".", "3", ".", "x">>,
          <<"1", ".", "2", ".", "3", ".", "4", ".", "x">>,
          <<"alpha", ".", "x">>, <<"x", ".", "1">>}
    \cup {<<>>, <<"alpha">>, <<"1", ".">>, <<"1", ".", ".", "2">>, <<">">>,
          <<"-", "1">>, <<"1", ".", "alpha">>, <<"~">>, <<"^", "alpha">>,
          <<"1", ".", "0", " ", "-", " ", "alpha">>}

\* One parse of a literal: lhs is the literal, result what the parser
\* returned or raised
ParseInit ==
    /\ lhs \in Literals /\ rhs = None
    /\ called = "none" /\ result = None
    /\ GraphIdle /\ InstallIdle

\* Version.parse(lhs)
CallVersionParse ==
    /\ called = "none"
    /\ called' = "Version.parse"
    /\ result' = Version_parse(lhs)
    /\ UNCHANGED <<lhs, rhs>>
    /\ UNCHANGED <<graphVars, installVars>>

\* VersionRange.parse(lhs)
CallRangeParse ==
    /\ called = "none"
    /\ called' = "VersionRange.parse"
    /\ result' = VersionRange_parse(lhs)
    /\ UNCHANGED <<lhs, rhs>>
    /\ UNCHANGED <<graphVars, installVars>>

ParseNext == CallVersionParse \/ CallRangeParse
ParseSpec == ParseInit /\ [][ParseNext]_vars

ComparatorInit ==
    /\ lhs \in Comparators /\ rhs \in Comparators
    /\ called = "none" /\ result = None
    /\ GraphIdle /\ InstallIdle
ComparatorNext == CallComparatorIntersection
ComparatorSpec == ComparatorInit /\ [][ComparatorNext]_vars

\* r1.intersects(r2) of two ranges
CallRangeIntersects ==
    /\ called = "none"
    /\ lhs.tag = "VersionRange" /\ rhs.tag = "VersionRange"
    /\ called' = "VersionRange.intersects"
    /\ result' = VersionRange_intersects(lhs, rhs)
    /\ UNCHANGED <<lhs, rhs>>
    /\ UNCHANGED <<graphVars, installVars>>

RangeInit ==
    /\ lhs \in Ranges /\ rhs \in Ranges
    /\ called = "none" /\ result = None
    /\ GraphIdle /\ InstallIdle
RangeNext == CallRangeIntersection \/ CallRangeIntersects
RangeSpec == RangeInit /\ [][RangeNext]_vars

----------------------------------------------------------------------------
\* A DependencyGraph: add() calls, then one resolve()

\* DependencyGraph.__init__: the empty defaultdict(list)
GraphInit ==
    /\ dependencies = [n \in GraphNameSet |-> <<>>]
    /\ resolutions = None
    /\ SemverIdle /\ InstallIdle

\* DependencyGraph.add: the parsed range appended under the name; a literal
\* that does not parse raises and leaves the graph as it was
DependencyGraph_add(deps, name, version_range) ==
    LET parsed == VersionRange_parse(version_range)
    IN  IF IsRaise(parsed) THEN deps
        ELSE [deps EXCEPT ![name] = Append(@, parsed)]

GraphAdd ==
    /\ resolutions = None
    /\ \E name \in GraphNameSet, literal \in GraphLiterals :
          /\ Len(dependencies[name]) < MaxRanges
          /\ dependencies' = DependencyGraph_add(dependencies, name, literal)
    /\ UNCHANGED resolutions
    /\ UNCHANGED <<semverVars, installVars>>

GraphResolve ==
    /\ resolutions = None
    /\ resolutions' = DependencyGraph_resolve(dependencies)
    /\ UNCHANGED dependencies
    /\ UNCHANGED <<semverVars, installVars>>

GraphNext == GraphAdd \/ GraphResolve
GraphSpec == GraphInit /\ [][GraphNext]_vars

----------------------------------------------------------------------------
\* One install command (install.py:74-126) over a project, its installers
\* and the remote sources

\* The references of the command line
References == { <<"a">>, <<"b">>, <<"x", ".git">> }

GE100 == <<">", "=", "1", ".", "0", ".", "0">>
LT200 == <<"<", "2", ".", "0", ".", "0">>

\* The dependencies the wheels of the index declare, as parse_requires
\* returns them: none; b requires a; a requires c; a and b both require c;
\* a requires c in a form that is no semantic version range; b requires a,
\* which requires c
Indexes ==
    { [n \in {"a", "b", "c"} |-> <<>>],
      [n \in {"a", "b", "c"} |-> IF n = "b" THEN << <<"a", GE100>> >> ELSE <<>>],
      [n \in {"a", "b", "c"} |-> IF n = "a" THEN << <<"c", GE100>> >> ELSE <<>>],
      [n \in {"a", "b", "c"} |->
          CASE n = "a" -> << <<"c", GE100>> >>
            [] n = "b" -> << <<"c", LT200>> >>
            [] OTHER   -> <<>>],
      [n \in {"a", "b", "c"} |-> IF n = "a" THEN << <<"c", <<"latest">> >> >> ELSE <<>>],
      [n \in {"a", "b", "c"} |->
          CASE n = "b" -> << <<"a", GE100>> >>
            [] n = "a" -> << <<"c", GE100>> >>
            [] OTHER   -> <<>>] }

\* The dependencies of the project's pym.json
Manifests ==
    { <<>>,
      << <<"c", <<"^">> \o RemoteVersion>> >>,
      << <<"a", <<"git+", "x", ".git">> >>, <<"b", <<"^">> \o RemoteVersion>> >> }

\* The orders in which iteration can yield the elements of a set
Orders(S) ==
    {o \in [1..Cardinality(S) -> S] : \A i, j \in DOMAIN o : o[i] = o[j] => i = j}

\* VersionRange.max
VersionRange_max(r) ==
    IF r.upper = None
    THEN IF r.lower.operator \in {"=", "<="} THEN r.lower.version
         ELSE IF r.lower.operator \in {">", ">="} THEN <<>>
         ELSE None
    ELSE IF r.upper.operator = "<=" THEN r.upper.version
    ELSE None

\* The (dependency, version_range) items of the packages' manifests, in the
\* order lines 101-103 visit them
RECURSIVE declared(_, _)
declared(pkgs, i) ==
    IF i > Len(pkgs) THEN <<>>
    ELSE pkgs[i].config.dependencies \o declared(pkgs, i + 1)

\* VersionRange.parse of every item's range, as dep_graph.add calls it
parse_all(items) == [i \in 1..Len(items) |-> VersionRange_parse(items[i][2])]

\* dep_graph.add for each item, in order: every name's list extended by the
\* parsed ranges of its items
add_all(deps, items, parsed) ==
    [n \in DOMAIN deps |->
        LET own == SelectSeq([i \in 1..Len(items) |-> <<items[i][1], parsed[i]>>],
                             LAMBDA item : item[1] = n)
        IN  deps[n] \o [k \in 1..Len(own) |-> own[k][2]]]

\* The exception of the first item whose range VersionRange.parse rejects, which
\* ends the loop of lines 101-103; None when every range parses
parse_error(parsed) ==
    LET bad == {i \in 1..Len(parsed) : IsRaise(parsed[i])}
    IN  IF bad = {} THEN None
        ELSE parsed[CHOOSE i \in bad : \A j \in bad : i <= j]

\* The keys of the graph in insertion order: the names of items, each at its
\* first occurrence
RECURSIVE keys(_, _)
keys(items, i) ==
    IF i > Len(items) THEN <<>>
    ELSE IF \E j \in 1..(i - 1) : items[j][1] = items[i][1]
    THEN keys(items, i + 1)
    ELSE <<items[i][1]>> \o keys(items, i + 1)

\* Where run() goes after a fetch of the first loop (lines 97-100) and after
\* an unstage (lines 115-124)
after_fetch(rest) == IF rest = <<>> THEN "resolve" ELSE "fetch"

\* A run that saves once the first package is unstaged
save_after_first_unstage(pkgs, done) ==
    IF done = 0 /\ Len(pkgs) > 0 THEN "unstage" ELSE "save"

unstage_or_save(pkgs, done) == IF done < Len(pkgs) THEN "unstage" ELSE "save"

\* An unstage pass that starts while resolved dependencies are still to fetch
after_resolved_unstaging(rest, pkgs) == unstage_or_save(pkgs, 0)

\* Where run() goes after the graph pass and after a fetch of the second loop
after_resolved(rest, pkgs) ==
    IF rest = <<>> THEN unstage_or_save(pkgs, 0) ELSE "fetch_resolved"

Running == {"run", "fetch", "resolve", "fetch_resolved", "unstage", "move", "save"}

\* The project, the sources and the command line a command starts from; the
\* staging directory may be left over from an earlier command
Init ==
    /\ SemverIdle
    /\ dependencies = [n \in PkgNames |-> <<>>] /\ resolutions = None
    /\ pc = "run"
    /\ args \in [packages : SUBSET References, save : BOOLEAN]
    /\ installers \in { <<"git", "pypi">>, <<"git">> }
    /\ index \in Indexes
    /\ manifest0 \in Manifests /\ manifest = manifest0 /\ project = manifest0
    /\ installables = <<>> /\ packages = <<>> /\ queue = <<>>
    /\ staging \in {None, [NoDirs EXCEPT !["a"] = Content("git", None, FALSE)]}
    /\ installed0 \in {NoDirs, [NoDirs EXCEPT !["a"] = Old("a")]}
    /\ installed = installed0
    /\ unstaged = 0 /\ error = None /\ failedAt = "none"
    /\ run = 1

\* An exception leaves run()
Raised(e, at) == pc' = "raised" /\ error' = e /\ failedAt' = at

\* Lines 75-95: the installer of every reference of the command line (in the
\* order the set yields them) or of every entry of the manifest, then makedirs
Start ==
    /\ pc = "run"
    /\ IF args.packages # {}
       THEN \E order \in Orders(args.packages) :
               installables' =
                   [i \in DOMAIN order |-> find_ref_installer(installers, order[i])]
       ELSE installables' =
               [i \in 1..Len(project) |->
                   find_installer(installers, project[i][1], project[i][2])]
    /\ staging' = makedirs(staging)
    /\ pc' = after_fetch(installables')
    /\ UNCHANGED <<error, failedAt>>
    /\ UNCHANGED <<args, installers, index, project, manifest, manifest0,
                   packages, queue, installed, installed0, unstaged>>
    /\ UNCHANGED <<semverVars, graphVars, run>>

\* Lines 97-98: one pass of the first loop, self.install(installer, info, dest)
Fetch ==
    /\ pc = "fetch"
    /\ IF installables[1] = None
       THEN /\ Raised(TypeError, "fetch")
            /\ UNCHANGED <<installables, packages, staging, project>>
       ELSE \E o \in InstallCommand_install(installables[1], staging, index,
                                            FALSE, project, TRUE) :
               /\ staging' = o.staging
               /\ project' = o.project
               /\ IF o.error # None
                  THEN /\ Raised(o.error, "fetch")
                       /\ UNCHANGED <<installables, packages>>
                  ELSE /\ packages' = Append(packages, o.package)
                       /\ installables' = Tail(installables)
                       /\ pc' = after_fetch(installables')
                       /\ UNCHANGED <<error, failedAt>>
    /\ UNCHANGED <<args, installers, index, manifest, manifest0, queue,
                   installed, installed0, unstaged>>
    /\ UNCHANGED <<semverVars, graphVars, run>>

\* Lines 100-106: the graph of the declared dependencies and its resolution
Resolve ==
    /\ pc = "resolve"
    /\ \E parsed \in {parse_all(declared(packages, 1))} :
          LET items == declared(packages, 1)
              graph == add_all(dependencies, items, parsed)
              resolved == DependencyGraph_resolve(graph)
              names == keys(items, 1)
          IN  IF parse_error(parsed) # None
              THEN /\ Raised(parse_error(parsed), "resolve")
                   /\ UNCHANGED <<dependencies, resolutions, queue>>
              ELSE /\ dependencies' = graph
                   /\ resolutions' = resolved
                   /\ IF IsRaise(resolved)
                      THEN /\ Raised(resolved, "resolve")
                           /\ UNCHANGED queue
                      ELSE /\ queue' = [i \in 1..Len(names) |->
                                           <<names[i], resolved.of[names[i]]>>]
                           /\ pc' = after_resolved(queue', packages)
                           /\ UNCHANGED <<error, failedAt>>
    /\ UNCHANGED <<args, installers, index, project, manifest, manifest0,
                   installables, packages, staging, installed, installed0,
                   unstaged>>
    /\ UNCHANGED <<semverVars, run>>

\* Lines 106-113: one pass of the second loop, the resolved dependency
\* installed with the command's save flag
FetchResolved ==
    /\ pc = "fetch_resolved"
    /\ LET name == queue[1][1]
           version_range == queue[1][2]
           found == find_installer(installers, name, VersionRange_str(version_range))
       IN  IF found = None
           THEN /\ Raised(TypeError, "fetch")
                /\ UNCHANGED <<queue, packages, staging, project>>
           ELSE LET info == [found.info EXCEPT
                                !.version = VersionRange_max(version_range),
                                !.version_range = version_range]
                IN  \E o \in InstallCommand_install(Pair(found.installer, info),
                                  staging, index, args.save, project, FALSE) :
                        /\ staging' = o.staging
                        /\ project' = o.project
                        /\ IF o.error # None
                           THEN /\ Raised(o.error, "fetch")
                                /\ UNCHANGED <<queue, packages>>
                           ELSE /\ packages' = Append(packages, o.package)
                                /\ queue' = Tail(queue)
                                /\ pc' = after_resolved(queue', packages')
                                /\ UNCHANGED <<error, failedAt>>
    /\ UNCHANGED <<args, installers, index, manifest, manifest0, installables,
                   installed, installed0, unstaged>>
    /\ UNCHANGED <<semverVars, graphVars, run>>

\* Lines 115-117 and 152-157: the next package's install directory removed
UnstageRemove ==
    /\ pc = "unstage"
    /\ installed' = unstage_rmtree(installed, packages[unstaged + 1])
    /\ pc' = "move"
    /\ UNCHANGED <<args, installers, index, project, manifest, manifest0,
                   installables, packages, queue, staging, installed0, unstaged,
                   error, failedAt>>
    /\ UNCHANGED <<semverVars, graphVars, run>>

\* Lines 158 and 118-122: its staged directory moved there
UnstageMove ==
    /\ pc = "move"
    /\ LET moved == unstage_move(staging, installed, packages[unstaged + 1])
       IN  /\ staging' = moved.staging
           /\ installed' = moved.installed
           /\ IF moved.error # None
              THEN /\ Raised(moved.error, "unstage")
                   /\ UNCHANGED unstaged
              ELSE /\ unstaged' = unstaged + 1
                   /\ pc' = unstage_or_save(packages, unstaged')
                   /\ UNCHANGED <<error, failedAt>>
    /\ UNCHANGED <<args, installers, index, project, manifest, manifest0,
                   installables, packages, queue, installed0>>
    /\ UNCHANGED <<semverVars, graphVars, run>>

\* Lines 124-126: the project's pym.json written when --save is set
Finish ==
    /\ pc = "save"
    /\ manifest' = IF args.save THEN project ELSE manifest
    /\ pc' = "returned"
    /\ UNCHANGED <<args, installers, index, project, manifest0, installables,
                   packages, queue, staging, installed, installed0, unstaged,
                   error, failedAt>>
    /\ UNCHANGED <<semverVars, graphVars, run>>

\* The caller of run(): cleanup() once run() has returned or raised
Cleanup ==
    /\ pc \in {"returned", "raised"}
    /\ staging' = cleanup(staging)
    /\ pc' = "done"
    /\ UNCHANGED <<args, installers, index, project, manifest, manifest0,
                   installables, packages, queue, installed, installed0,
                   unstaged, error, failedAt>>
    /\ UNCHANGED <<semverVars, graphVars, run>>

\* A signal ends the process between two steps of run()
Abort ==
    /\ pc \in Running
    /\ pc' = "aborted"
    /\ UNCHANGED <<args, installers, index, project, manifest, manifest0,
                   installables, packages, queue, staging, installed,
                   installed0, unstaged, error, failedAt>>
    /\ UNCHANGED <<semverVars, graphVars, run>>

\* The same command line given again once the command has ended without
\* error: a new process whose make() loads the project as it is on disk and
\* whose run() starts with an empty list, an empty graph and the directories
\* as they are
Again ==
    /\ pc = "done" /\ error = None
    /\ run < MaxRuns
    /\ run' = run + 1
    /\ pc' = "run"
    /\ project' = manifest /\ manifest0' = manifest
    /\ installed0' = installed
    /\ installables' = <<>> /\ packages' = <<>> /\ queue' = <<>>
    /\ unstaged' = 0 /\ error' = None /\ failedAt' = "none"
    /\ dependencies' = [n \in PkgNames |-> <<>>] /\ resolutions' = None
    /\ UNCHANGED <<args, installers, index, manifest, staging, installed>>
    /\ UNCHANGED semverVars

Next ==
    \/ Start \/ Fetch \/ Resolve \/ FetchResolved
    \/ UnstageRemove \/ UnstageMove \/ Finish \/ Cleanup \/ Abort \/ Again

Spec == Init /\ [][Next]_vars

----------------------------------------------------------------------------
\* One uninstall command (install.py:426-462). args.packages is the list of
\* names of the command line, queue the names the loop has still to remove.

\* del dict[key]; a missing key (KeyError) is what the caller passes over
dict_del(dict, key) == SelectSeq(dict, LAMBDA item : item[1] # key)

\* The lists that hold every element of S once, in any order
Lists(S) == UNION {Orders(T) : T \in SUBSET S}

UninstallInit ==
    /\ SemverIdle /\ GraphIdle
    /\ pc = "uninstall"
    /\ args \in [packages : Lists({"a", "b", "c"}), save : BOOLEAN]
    /\ manifest0 \in Manifests /\ manifest = manifest0 /\ project = manifest0
    /\ installed0 \in {[d \in PkgNames |-> IF d \in S THEN Old(d) ELSE None] :
                           S \in SUBSET {"a", "b", "c"}}
    /\ installed = installed0
    /\ queue = args.packages
    /\ installers = <<>> /\ index = <<>> /\ installables = <<>>
    /\ packages = <<>> /\ staging = None
    /\ unstaged = 0 /\ error = None /\ failedAt = "none" /\ run = 1

\* Lines 450-461: one pass of the loop. rmtree of a directory that is not
\* there raises FileNotFoundError, which skips the del and is answered with a
\* warning; the KeyError of a del of an unsaved name is passed over
UninstallRemove ==
    /\ pc = "uninstall" /\ queue # <<>>
    /\ LET removable == queue[1]
       IN  IF installed[removable] = None
           THEN UNCHANGED <<installed, project>>
           ELSE /\ installed' = [installed EXCEPT ![removable] = None]
                /\ project' = IF args.save THEN dict_del(project, removable)
                               ELSE project
    /\ queue' = Tail(queue)
    /\ UNCHANGED <<pc, args, installers, index, manifest, manifest0,
                   installables, packages, staging, installed0, unstaged,
                   error, failedAt, run>>
    /\ UNCHANGED <<semverVars, graphVars>>

\* Line 462: self.project.save(), with or without --save
UninstallSave ==
    /\ pc = "uninstall" /\ queue = <<>>
    /\ manifest' = project
    /\ pc' = "uninstalled"
    /\ UNCHANGED <<args, installers, index, project, manifest0, installables,
                   packages, queue, staging, installed, installed0, unstaged,
                   error, failedAt, run>>
    /\ UNCHANGED <<semverVars, graphVars>>

UninstallNext == UninstallRemove \/ UninstallSave
UninstallSpec == UninstallInit /\ [][UninstallNext]_vars

----------------------------------------------------------------------------
\* PymPackage.load (package.py:11-24, 98-106). A config is the function of its
\* keys; lhs is the pym.json that is read, result what load returns or raises.

DEFAULT_VALUES ==
    [staging_location |-> "pym_packages/.staging",
     install_location |-> "pym_packages"]

DEFAULT_CONFIG ==
    [name |-> "", version |-> "0.1.0", description |-> "", src |-> "src",
     license |-> "MIT", dependencies |-> <<>>]

\* {**defaults, **config}
dict_merge(defaults, config) ==
    [k \in DOMAIN defaults \cup DOMAIN config |->
        IF k \in DOMAIN config THEN config[k] ELSE defaults[k]]

\* The pym.json files load is given: none, one that is not JSON, and one for
\* every choice of keys, each key with a value that is not its default
PymFiles ==
    LET written == [name |-> "pkg", version |-> "2.0.0", description |-> "text",
                    src |-> "lib", license |-> "GPLv2",
                    dependencies |-> << <<"c", "^1.0.0">> >>,
                    staging_location |-> "vendor/.tmp",
                    install_location |-> "vendor"]
    IN  {[kind |-> "missing"], [kind |-> "malformed"]}
        \cup {[kind |-> "json", config |-> [k \in S |-> written[k]]] :
                 S \in SUBSET DOMAIN written}

\* PymPackage.load: open() of a missing file raises FileNotFoundError, which
\* becomes PymPackageException; json.load of a malformed one raises
\* JSONDecodeError, which no clause catches
PymPackage_load(file) ==
    CASE file.kind = "missing" -> Raise("PymPackageException")
      [] file.kind = "malformed" -> Raise("JSONDecodeError")
      [] OTHER -> [tag |-> "PymPackage",
                   config |-> dict_merge(DEFAULT_VALUES, file.config)]

LoadInit ==
    /\ lhs \in PymFiles /\ rhs = None /\ called = "none" /\ result = None
    /\ GraphIdle /\ InstallIdle

CallLoad ==
    /\ called = "none"
    /\ called' = "PymPackage.load"
    /\ result' = PymPackage_load(lhs)
    /\ UNCHANGED <<lhs, rhs>>
    /\ UNCHANGED <<graphVars, installVars>>

LoadSpec == LoadInit /\ [][CallLoad]_vars

----------------------------------------------------------------------------
\* The index lookups of PypiInstaller (install.py:319-346). Of a URL
\* "{URL}/{name}/{version}" only the version part is kept; the index is the
\* set of version parts whose GET answers 200, and a page is named by the
\* version part that served it.

\* url.rstrip('.0'): every trailing character that is "." or "0" removed, the
\* last 0 of the numeral 10 included
RECURSIVE rstrip_dot_zero(_)
rstrip_dot_zero(url) ==
    IF url = <<>> THEN url
    ELSE IF url[Len(url)] \in {".", "0"}
    THEN rstrip_dot_zero(Take(url, Len(url) - 1))
    ELSE IF url[Len(url)] = "10" THEN Append(Take(url, Len(url) - 1), "1")
    ELSE url

\* The while loop of find_existing_page: the URL it ends with
RECURSIVE find_existing_page_loop(_, _)
find_existing_page_loop(pages, url) ==
    IF /\ url \notin pages
       /\ Len(url) >= 2 /\ url[Len(url)] = "0" /\ url[Len(url) - 1] = "."
    THEN find_existing_page_loop(pages, rstrip_dot_zero(url))
    ELSE url

\* PypiInstaller.find_existing_page
PypiInstaller_find_existing_page(pages, version) ==
    LET url == find_existing_page_loop(pages, Version_str(version))
    IN  IF url \in pages THEN [tag |-> "Page", url |-> url] ELSE None

\* The while loop of find_max_version from segment seg_idx on (1-based)
RECURSIVE find_max_version_loop(_, _, _, _)
find_max_version_loop(pages, version_range, previous, seg_idx) ==
    IF seg_idx > 3 THEN previous
    ELSE LET current == Version_inc(Version_copy(previous), SEGMENTS[seg_idx])
         IN  IF \/ ~VersionRange_contains(version_range, current)
                \/ PypiInstaller_find_existing_page(pages, current) = None
             THEN find_max_version_loop(pages, version_range, previous, seg_idx + 1)
             ELSE find_max_version_loop(pages, version_range,
                                        Version_copy(current), seg_idx)

\* PypiInstaller.find_max_version
PypiInstaller_find_max_version(pages, version_range) ==
    find_max_version_loop(pages, version_range, version_range.lower.version, 1)

\* The versions looked up and the pages an index can serve: the full printed
\* form of each version and the forms that leave trailing ".0" segments off
PageVersions ==
    {Version(1, 0, 0, <<>>), Version(1, 0, 1, <<>>), Version(1, 1, 0, <<>>),
     Version(1, 10, 0, <<>>), Version(2, 0, 0, <<>>)}
Pages ==
    {Version_str(v) : v \in PageVersions}
    \cup {<<"2", ".", "0">>, <<"2">>, <<"1", ".", "1">>, <<"1", ".", "10">>}

\* One lookup: lhs is the version or the range looked up, rhs the index
PypiInit ==
    /\ lhs \in PageVersions \cup Ranges
    /\ rhs \in SUBSET Pages
    /\ called = "none" /\ result = None
    /\ GraphIdle /\ InstallIdle

CallFindExistingPage ==
    /\ called = "none" /\ lhs.tag = "Version"
    /\ called' = "find_existing_page"
    /\ result' = PypiInstaller_find_existing_page(rhs, lhs)
    /\ UNCHANGED <<lhs, rhs>>
    /\ UNCHANGED <<graphVars, installVars>>

CallFindMaxVersion ==
    /\ called = "none" /\ lhs.tag = "VersionRange"
    /\ called' = "find_max_version"
    /\ result' = PypiInstaller_find_max_version(rhs, lhs)
    /\ UNCHANGED <<lhs, rhs>>
    /\ UNCHANGED <<graphVars, installVars>>

PypiNext == CallFindExistingPage \/ CallFindMaxVersion
PypiSpec == PypiInit /\ [][PypiNext]_vars

----------------------------------------------------------------------------
\* Properties of the install command

\* Two entries of the list `packages` carry the same name
SameName(i, j) ==
    /\ i \in 1..Len(packages) /\ j \in 1..Len(packages) /\ i < j
    /\ packages[i].config.name = packages[j].config.name

\* A dict as a function of its keys
DictFn(dict) ==
    [k \in {dict[i][1] : i \in 1..Len(dict)} |->
        dict[CHOOSE i \in 1..Len(dict) : dict[i][1] = k][2]]

\* The command ended without an error: run() returned and cleanup() ran
Succeeded == pc = "done" /\ error = None

C2_AbortLeavesOldOrNew ==
    pc = "aborted" =>
        \A n \in PkgNames :
            \/ installed[n] = installed0[n]
            \/ /\ installed[n] # None
               /\ installed[n].complete
               /\ installed[n].origin # "old"

\* C3: after a successful install --save with explicit references, the
\* persisted dependencies are the previous ones updated with
\* name -> version_range for exactly the requested packages; resolved
\* dependencies are not added.
C3_SaveRecordsRequested ==
    (Succeeded /\ args.save /\ args.packages # {}) =>
        LET requested == {i \in 1..Len(packages) : packages[i].requested}
            names == {packages[i].config.name : i \in requested}
            last(n) == CHOOSE i \in requested :
                          /\ packages[i].config.name = n
                          /\ \A j \in requested :
                                packages[j].config.name = n => j <= i
        IN  DictFn(manifest) =
                [n \in DOMAIN DictFn(manifest0) \cup names |->
                    IF n \in names THEN packages[last(n)].version_range
                    ELSE DictFn(manifest0)[n]]

C5_UnstageAfterAllFetches ==
    /\ (pc = "move" \/ unstaged > 0 \/ installed # installed0) =>
          installables = <<>> /\ queue = <<>> /\ resolutions # None
    /\ failedAt \in {"fetch", "resolve"} => installed = installed0

\* C5 happens: a resolved dependency's fetch failed after two packages had
\* been staged, and another command, past all its fetches, has unstaged one
C5_Witness ==
    \/ /\ failedAt = "fetch" /\ Len(packages) >= 2 /\ queue # <<>>
    \/ /\ unstaged > 0 /\ Len(packages) >= 3

\* C6: when two entries of the list of fetched packages have the same name,
\* the unstage pass completes without error and <install_location>/<name>
\* exists afterwards (the later entry having overwritten the earlier).
C6_DuplicateOverwrites ==
    (\E i, j \in 1..Len(packages) : SameName(i, j)) =>
        /\ failedAt # "unstage"
        /\ (pc \in {"save", "returned"} \/ Succeeded) =>
              \A i, j \in 1..Len(packages) :
                  SameName(i, j) =>
                      /\ installed[packages[j].config.name] # None
                      /\ installed[packages[j].config.name].complete

\* No installer of the list accepts some reference of the command line, or
\* (without references) some entry of the manifest
Unaccepted ==
    IF args.packages # {}
    THEN \E reference \in args.packages :
            find_ref_installer(installers, reference) = None
    ELSE \E i \in 1..Len(manifest0) :
            find_installer(installers, manifest0[i][1], manifest0[i][2]) = None

\* C14: when no installer accepts a reference, the lookup fails with
\* InstallerNotFound and the command stops before anything is fetched.
C14_InstallerNotFound ==
    (pc # "run" /\ Unaccepted) =>
        /\ error = Raise("InstallerNotFoundException")
        /\ packages = <<>>

\* C15: after a successful install every package directory the command
\* installed holds a pym.json with an `src` key, whether the package shipped
\* its own pym.json (with or without `src`) or the manifest was synthesized.
C15_InstalledManifestHasSrc ==
    Succeeded =>
        \A i \in 1..Len(packages) :
           LET dir == installed[packages[i].config.name]
           IN  /\ dir # None
               /\ dir.manifest # None
               /\ has_src(dir.manifest)

\* C16: `install X --save` given twice against unchanged remotes leaves the
\* persisted manifest after the second run identical to the one after the
\* first run.
C16_SecondSaveChangesNothing ==
    (run = 2 /\ args.packages # {} /\ args.save) => manifest = manifest0

\* C16 happens: the second run of an `install X --save` ended without error,
\* having saved a resolved dependency both times
C16_Witness ==
    /\ run = 2 /\ args.packages # {} /\ args.save
    /\ Succeeded
    /\ \E i \in 1..Len(packages) :
          /\ ~packages[i].requested
          /\ \E k \in 1..Len(manifest) : manifest[k][1] = packages[i].config.name

\* C17: after `uninstall --save` of a list of names has completed, none of
\* the names is a key of the persisted dependencies, whether or not its
\* install directory existed.
C17_UninstalledNamesNotSaved ==
    (pc = "uninstalled" /\ args.save) =>
        \A i \in 1..Len(args.packages) :
           \A k \in 1..Len(manifest) : manifest[k][1] # args.packages[i]

\* C18: PymPackage.load of a pym.json that omits any of name, version,
\* description, src, license, dependencies, install_location and
\* staging_location yields a config that has the default of every omitted key
\* and the file's value of every key that is present.
C18_LoadFillsDefaults ==
    (called = "PymPackage.load" /\ lhs.kind = "json") =>
        /\ result.tag = "PymPackage"
        /\ \A k \in DOMAIN DEFAULT_CONFIG \cup DOMAIN DEFAULT_VALUES :
              /\ k \in DOMAIN result.config
              /\ result.config[k] =
                    IF k \in DOMAIN lhs.config THEN lhs.config[k]
                    ELSE dict_merge(DEFAULT_CONFIG, DEFAULT_VALUES)[k]

\* C19: PymPackage.load fails with a PymPackage error both when pym.json is
\* missing and when it is malformed, and no other kind of error leaves it.
C19_LoadRaisesPymPackageException ==
    called = "PymPackage.load" =>
        /\ lhs.kind \in {"missing", "malformed"} => IsRaise(result)
        /\ IsRaise(result) => result = Raise("PymPackageException")

----------------------------------------------------------------------------
\* Properties of the version algebra and the dependency graph

\* v is in what an intersection returned: None is the empty result
InResult(r, v) == r.tag = "VersionRange" /\ VersionRange_contains(r, v)

\* C7: resolve() returns, without error, for every name that had ranges
\* added a range that holds exactly the versions that lie in every range
\* added under the name (no version when the ranges share none).
C7_ResolveIsIntersection ==
    resolutions # None =>
        /\ resolutions.tag = "Resolutions"
        /\ \A n \in GraphNames(dependencies) :
              /\ resolutions.of[n].tag \in {"VersionRange", "None"}
              /\ \A v \in ProbeVersions :
                    InResult(resolutions.of[n], v)
                        <=> \A i \in 1..Len(dependencies[n]) :
                                VersionRange_contains(dependencies[n][i], v)

\* C8: r1.intersection(r2) of two ranges holds exactly the versions that
\* both r1 and r2 hold, and is empty when they share none.
C8_RangeIntersectionExact ==
    called = "VersionRange.intersection" =>
        /\ result.tag \in {"VersionRange", "None"}
        /\ \A v \in ProbeVersions :
              InResult(result, v)
                  <=> VersionRange_contains(lhs, v) /\ VersionRange_contains(rhs, v)

SameSide(a, b) ==
    \/ a.operator \in UpperLike /\ b.operator \in UpperLike
    \/ a.operator \in LowerLike /\ b.operator \in LowerLike

\* t is the tighter of two comparators of one side: the smaller version of
\* two upper-likes, the larger of two lower-likes
Tighter(t, l) ==
    IF t.operator \in UpperLike THEN Version_lt(t.version, l.version)
    ELSE Version_lt(l.version, t.version)

\* C9: for two upper-like or two lower-like comparators, strict or not in any
\* mix, the intersection is the single-sided range of the tighter one whenever
\* the looser one is satisfied at the tighter one's version.
C9_TighterWins ==
    (called = "Comparator.intersection" /\ SameSide(lhs, rhs)) =>
        \A p \in {<<lhs, rhs>>, <<rhs, lhs>>} :
            (Tighter(p[1], p[2]) /\ Comparator_satisfies(p[2], p[1].version))
                => result = VersionRange(p[1], None)

\* The lower-like and upper-like operand of a call, as <<L, U>>
LowerUpper ==
    {p \in {<<lhs, rhs>>, <<rhs, lhs>>} :
        p[1].operator \in LowerLike /\ p[2].operator \in UpperLike}

\* C10: for a lower-like L and an upper-like U, in either argument order, the
\* intersection is the range (L, U) exactly when each satisfies the other's
\* version and is empty otherwise; >V with <V, >=V with <V and >V with <=V
\* are empty.
C10_LowerUpperPair ==
    called = "Comparator.intersection" =>
        \A p \in LowerUpper :
            /\ result = IF /\ Comparator_satisfies(p[1], p[2].version)
                             /\ Comparator_satisfies(p[2], p[1].version)
                          THEN VersionRange(p[1], p[2])
                          ELSE None
            /\ (p[1].version = p[2].version
                    /\ (p[1].operator = ">" \/ p[2].operator = "<"))
                  => result = None

\* C10's case: U.intersection(L) that is not empty
C10_Witness ==
    /\ called = "Comparator.intersection"
    /\ lhs.operator = "<" /\ rhs.operator = ">="
    /\ result = VersionRange(rhs, lhs)

\* C11: for every comparator a, strict or not, a.intersection(a) is a: the
\* non-empty range that holds exactly the versions that satisfy a.
C11_IntersectionIdempotent ==
    (called = "Comparator.intersection" /\ lhs = rhs) =>
        /\ result = VersionRange(lhs, None)
        /\ \A v \in ProbeVersions :
              InResult(result, v) <=> Comparator_satisfies(lhs, v)

\* C12: a.intersection(b) is b.intersection(a): both empty, or ranges with
\* the same lower and the same upper comparator.
C12_IntersectionCommutes ==
    called = "Comparator.intersection" =>
        result = Comparator_intersection(rhs, lhs)

\* C12's case: two comparators of different operators and versions whose
\* intersection is not empty
C12_Witness ==
    /\ called = "Comparator.intersection"
    /\ lhs.operator = "<=" /\ rhs.operator = "="
    /\ Version_lt(rhs.version, lhs.version)
    /\ result = VersionRange(rhs, None)

\* C13: for any two ranges, open above or two-sided, in either receiver
\* order, r1.intersects(r2) returns without raising, and returns true exactly
\* when some version lies in both.
C13_IntersectsExact ==
    called = "VersionRange.intersects" =>
        /\ result.tag = "bool"
        /\ result.value <=> \E v \in ProbeVersions :
                               VersionRange_contains(lhs, v) /\ VersionRange_contains(rhs, v)

\* a comes before b: the numeric triple decides in the order major, minor,
\* patch, and the build strings decide between equal triples
Before(a, b) ==
    \/ a.major < b.major
    \/ a.major = b.major /\ a.minor < b.minor
    \/ a.major = b.major /\ a.minor = b.minor /\ a.patch < b.patch
    \/ /\ a.major = b.major /\ a.minor = b.minor /\ a.patch = b.patch
       /\ BuildRank(a.build) < BuildRank(b.build)

\* C20: Version comparison is a total order: exactly one of a < b, a == b and
\* a > b holds, a > b is b < a, < is transitive, and a < b compares major,
\* minor and patch numerically in that order and then the builds, so that a
\* version with a build sorts after the same triple without one.
C20_VersionTotalOrder ==
    called = "Version.compare" =>
        /\ \A i, j \in 1..3 :
              /\ Cardinality({c \in {"lt", "eq", "gt"} : result[i][j][c]}) = 1
              /\ result[i][j].gt <=> result[j][i].lt
              /\ result[i][j].lt <=> Before(lhs[i], lhs[j])
        /\ (result[1][2].lt /\ result[2][3].lt) => result[1][3].lt

\* C20 happens: three versions in ascending order, the first two the same
\* triple without and with a build
C20_Witness ==
    /\ called = "Version.compare"
    /\ <<lhs[1].major, lhs[1].minor, lhs[1].patch>>
           = <<lhs[2].major, lhs[2].minor, lhs[2].patch>>
    /\ lhs[1].build = <<>> /\ lhs[2].build # <<>>
    /\ result[1][2].lt /\ result[2][3].lt /\ result[1][3].lt

\* The numeric components a version literal writes: the pieces between the
\* "." of what stands before the build tag
Written(literal) ==
    Len(split(partition(Version_clean(literal), <<"-">>)[1], "."))

\* C21: Version.parse sets partial exactly when the literal omitted its minor
\* or its patch component; a literal that writes all three, zeros included,
\* is not partial.
C21_PartialIffOmitted ==
    (called = "Version.parse" /\ ~IsRaise(result)) =>
        (result.partial <=> Written(lhs) < 3)

\* C22: the hyphen range "A - B" parses to the lower bound >=A and, whenever
\* B's literal writes major, minor and patch, to the inclusive upper bound
\* <=B; the upper bound is the exclusive <B only when B's literal omits minor
\* or patch.
C22_HyphenUpperInclusive ==
    LET parted == partition(lhs, <<" ", "-", " ">>)
    IN  (called = "VersionRange.parse" /\ parted[3] # <<>> /\ ~IsRaise(result)) =>
            /\ result.lower.operator = ">="
            /\ Version_eq(result.lower.version, Version_parse(parted[1]))
            /\ Version_eq(result.upper.version, Version_parse(parted[3]))
            /\ result.upper.operator = IF Written(parted[3]) < 3 THEN "<" ELSE "<="

\* The numeric triple of a version
Triple(v) == <<v.major, v.minor, v.patch>>

\* C23: the tilde range "~A" parses to the lower bound >=A and to the upper
\* bound <(A.major, A.minor + 1, 0) whenever A's literal has a minor or patch
\* component, ~1.0 and ~1.0.0 included, and to <(A.major + 1, 0, 0) only when
\* the literal gives just a major.
C23_TildeBumpsMinor ==
    LET literal == lstrip(lhs, {"~"})
        vlower == Version_parse(literal)
    IN  (called = "VersionRange.parse" /\ lhs # <<>> /\ lhs[1] = "~"
            /\ ~IsRaise(result)) =>
            /\ result.lower.operator = ">="
            /\ Version_eq(result.lower.version, vlower)
            /\ result.upper.operator = "<"
            /\ Triple(result.upper.version) =
                  IF Written(literal) >= 2
                  THEN <<vlower.major, vlower.minor + 1, 0>>
                  ELSE <<vlower.major + 1, 0, 0>>

\* C24: for a version literal A with a non-zero numeric component, the caret
\* range "^A" parses to the lower bound >=A and the upper bound <U, where U is
\* A with its first non-zero component of major, minor, patch incremented,
\* the later components 0 and no build tag.
C24_CaretBumpsFirstNonZero ==
    LET vlower == Version_parse(lstrip(lhs, {"^"}))
    IN  (called = "VersionRange.parse" /\ lhs # <<>> /\ lhs[1] = "^"
            /\ ~IsRaise(vlower) /\ Triple(vlower) # <<0, 0, 0>>) =>
            /\ ~IsRaise(result)
            /\ result.lower.operator = ">="
            /\ Version_eq(result.lower.version, vlower)
            /\ result.upper.operator = "<"
            /\ result.upper.version.build = <<>>
            /\ Triple(result.upper.version) =
                  IF vlower.major # 0 THEN <<vlower.major + 1, 0, 0>>
                  ELSE IF vlower.minor # 0 THEN <<0, vlower.minor + 1, 0>>
                  ELSE <<0, 0, vlower.patch + 1>>

\* C24 happens: a caret literal whose major is 0 and whose minor is not has
\* been parsed to a range below the next minor
C24_Witness ==
    /\ called = "VersionRange.parse" /\ lhs # <<>> /\ lhs[1] = "^"
    /\ ~IsRaise(result)
    /\ result.lower.version.major = 0 /\ result.lower.version.minor # 0
    /\ result.lower.version.patch # 0
    /\ Triple(result.upper.version) = <<0, result.lower.version.minor + 1, 0>>

\* C25: VersionRange.parse of any literal, in every parse shape, returns a
\* range or fails with VersionParseException; no other kind of error leaves
\* it.
C25_OnlyVersionParseException ==
    called = "VersionRange.parse" =>
        \/ result.tag = "VersionRange"
        \/ result = VersionParseException

\* C26: for every parseable version literal s, the printed form
\* str(Version.parse(s)) parses, to a version with the same major, minor,
\* patch and build, whether s has a leading "=" or "v", blanks around it,
\* omitted components or a build tag that holds "-" or ".".
C26_VersionRoundTrip ==
    (called = "Version.parse" /\ ~IsRaise(result)) =>
        LET again == Version_parse(Version_str(result))
        IN  /\ ~IsRaise(again)
            /\ Triple(again) = Triple(result)
            /\ again.build = result.build
            /\ Version_eq(again, result)

\* C26 happens: a literal with a leading "v", an omitted patch and a build
\* tag that holds "-" has been parsed
C26_Witness ==
    /\ called = "Version.parse" /\ ~IsRaise(result)
    /\ lhs[1] = "v" /\ Written(lhs) = 2
    /\ result.build = <<"alpha", "-", "beta">>

\* The versions that exist in an index of full pages and lie in a range
ExistingIn(pages, version_range) ==
    {v \in PageVersions :
        Version_str(v) \in pages /\ VersionRange_contains(version_range, v)}

\* C27: for any range and any set of versions that exist in the index,
\* find_max_version returns the greatest version that exists in the index and
\* is contained in the range, and what it returns is contained in the range.
C27_MaxVersionInRange ==
    (/\ called = "find_max_version"
     /\ rhs \subseteq {Version_str(v) : v \in PageVersions}
     /\ ExistingIn(rhs, lhs) # {}) =>
        /\ VersionRange_contains(lhs, result)
        /\ \E v \in ExistingIn(rhs, lhs) : Version_eq(v, result)
        /\ \A v \in ExistingIn(rhs, lhs) : Version_le(v, result)

\* url with one whole trailing ".0" segment removed
strip_segment(url) == Take(url, Len(url) - 2)

\* The first URL that is served among url and what is left of it as whole
\* trailing ".0" segments are removed one at a time; <<>> when none is
RECURSIVE first_served(_, _)
first_served(pages, url) ==
    IF url \in pages THEN url
    ELSE IF Len(url) >= 2 /\ url[Len(url)] = "0" /\ url[Len(url) - 1] = "."
    THEN first_served(pages, strip_segment(url))
    ELSE <<>>

\* C28: when the page of version V is not found, find_existing_page retries
\* only with whole trailing ".0" segments of V removed one at a time
\* (2.0.0, 2.0, 2; 1.10.0, 1.10), changing no other digit, until a GET
\* succeeds or the URL no longer ends in ".0"; so a page it returns is that
\* of a version numerically equal to V.
C28_StripsWholeZeroSegments ==
    called = "find_existing_page" =>
        LET served == first_served(rhs, Version_str(lhs))
        IN  /\ result = None <=> served = <<>>
            /\ result # None =>
                  /\ result.url = served
                  /\ Triple(Version_parse(result.url)) = Triple(lhs)

\* C29: the install command writes the project's pym.json only after the
\* whole unstage pass and only with --save: when a fetch, the resolution or
\* an unstage raises, or --save is not set, pym.json on disk is what it was
\* before the command.
C29_ManifestWrittenLast ==
    (pc # "idle" /\ manifest # manifest0) =>
        /\ args.save
        /\ error = None
        /\ unstaged = Len(packages)
        /\ pc \in {"returned", "done"}

\* C29 happens: a command with --save has unstaged all it fetched and written
\* a manifest that differs from the one it started from
C29_Witness ==
    /\ pc = "returned" /\ args.save
    /\ unstaged = Len(packages) /\ Len(packages) >= 2
    /\ manifest # manifest0

\* C30: after a successful install the installed set is closed under the
\* declared dependencies: for every package the command placed under
\* install_location, resolved dependencies included, every name of its
\* manifest's dependencies is present under install_location.
C30_InstalledClosedUnderDependencies ==
    Succeeded =>
        \A i \in 1..Len(packages) :
           \A k \in 1..Len(packages[i].config.dependencies) :
              installed[packages[i].config.dependencies[k][1]] # None

====
